---- MODULE Spec2Model ----
(***************************************************************************)
(* A model of the notebook nli_02_models.ipynb: the NLI feature functions, *)
(* the vocabulary builder, the sentence-encoding RNN's feed dictionaries   *)
(* and graph wiring, and the training wrappers.                            *)
(*                                                                         *)
(* Python values are modelled as follows.  A str is the record             *)
(* [t |-> "str", v |-> <<character codes>>]; a list is the record          *)
(* [t |-> "list", v |-> <<elements>>] where the code iterates over it      *)
(* generically, and a plain sequence elsewhere.  A tree is modelled by the *)
(* list of its leaves, the only part of a tree the notebook reads.  Floats *)
(* are exact rationals <<numerator, denominator>> in lowest terms.         *)
(***************************************************************************)
EXTENDS Integers, Sequences, FiniteSets, TLC

VARIABLES
    \* one call of a feature function on one example
    prem_tree, hyp_tree, np_func_arg, glove_lookup, called,
    overlap, cross, glove_feats, sent_rep, chained, mod,
    \* an experiment on a sampled dataset
    examples, y, X, phi_used, pc, vocab, n_words_arg,
    X_assess, feed, prem_last, hyp_last, last, model,
    \* the arrays np_func was applied to, whether a function has been called
    \* a second time, and the notebook's experiment runs
    np_calls, again, runs

vars == <<prem_tree, hyp_tree, np_func_arg, glove_lookup, called,
          overlap, cross, glove_feats, sent_rep, chained, mod,
          examples, y, X, phi_used, pc, vocab, n_words_arg,
          X_assess, feed, prem_last, hyp_last, last, model,
          np_calls, again, runs>>

phi_vars == <<prem_tree, hyp_tree, np_func_arg, glove_lookup, called,
              overlap, cross, glove_feats, sent_rep, chained, mod>>

exp_vars == <<examples, y, X, phi_used, pc, vocab, n_words_arg,
              X_assess, feed, prem_last, hyp_last, last, model>>

nb_vars == <<np_calls, again, runs>>

----------------------------------------------------------------------------
(* Bounds *)

\* the largest number of leaves of a tree handed to a feature function
MaxLeaves == 2
\* the length of the GloVe vectors of the modelled lookup
Dim == 2

----------------------------------------------------------------------------
(* Python values *)

PyStr(codes) == [t |-> "str", v |-> codes]

PyList(elems) == [t |-> "list", v |-> elems]

\* the tokens of the modelled corpus: "!", "a" and "ba"
Words == {PyStr(<<33>>), PyStr(<<97>>), PyStr(<<98, 97>>)}

\* "$UNK"
UNK == PyStr(<<36, 85, 78, 75>>)

Range(s) == {s[i] : i \in DOMAIN s}

BoundedSeq(S, n) == UNION {[1..k -> S] : k \in 0..n}

\* a tree, as the list of its leaves
Trees == BoundedSeq(Words, MaxLeaves)

leaves(tree) == tree

RECURSIVE SetToSeq(_)
SetToSeq(S) ==
    IF S = {} THEN <<>>
    ELSE LET e == CHOOSE e \in S : TRUE IN <<e>> \o SetToSeq(S \ {e})

\* collections.Counter over an iterable: each distinct element to its count
Counter(iterable) ==
    [k \in Range(iterable) |->
        Cardinality({i \in DOMAIN iterable : iterable[i] = k})]

\* itertools.product of two lists, in its order
product(l1, l2) ==
    [n \in 1..(Len(l1) * Len(l2)) |->
        <<l1[((n - 1) \div Len(l2)) + 1], l2[((n - 1) % Len(l2)) + 1]>>]

\* [e for e in l if keep(e)]
RECURSIVE Filter(_, _)
Filter(l, S) ==
    IF l = <<>> THEN <<>>
    ELSE (IF Head(l) \in S THEN <<Head(l)>> ELSE <<>>) \o Filter(Tail(l), S)

----------------------------------------------------------------------------
(* Exact arithmetic *)

Abs(n) == IF n < 0 THEN -n ELSE n

RECURSIVE GCD(_, _)
GCD(a, b) == IF b = 0 THEN a ELSE GCD(b, a % b)

\* n/d in lowest terms, d > 0
Rat(n, d) == LET g == GCD(Abs(n), d) IN <<n \div g, d \div g>>

RECURSIVE SumInts(_)
SumInts(s) == IF s = <<>> THEN 0 ELSE Head(s) + SumInts(Tail(s))

RECURSIVE ProdInts(_)
ProdInts(s) == IF s = <<>> THEN 1 ELSE Head(s) * ProdInts(Tail(s))

\* column k of a non-empty list of vectors
Column(allvecs, k) == [i \in 1..Len(allvecs) |-> allvecs[i][k]]

\* np.sum(allvecs, axis=0), np.mean(allvecs, axis=0), np.prod(allvecs, axis=0)
\* on a non-empty two-dimensional array
np_apply(np_func, allvecs) ==
    [k \in 1..Len(allvecs[1]) |->
        CASE np_func = "sum" -> Rat(SumInts(Column(allvecs, k)), 1)
          [] np_func = "mean" -> Rat(SumInts(Column(allvecs, k)), Len(allvecs))
          [] np_func = "prod" -> Rat(ProdInts(Column(allvecs, k)), 1)]

NpFuncs == {"sum", "mean", "prod"}

np_zeros(dim) == [k \in 1..dim |-> Rat(0, 1)]

np_concatenate(a, b) == a \o b

----------------------------------------------------------------------------
(* The GloVe lookup *)

\* the vector of a word: small integers, negative ones and zeros included
GloveVec(w) == [k \in 1..Dim |-> ((w.v[1] + k * Len(w.v)) % 5) - 2]

\* glove2dict: a non-empty lookup over some of the words
Lookups == {[w \in K |-> GloveVec(w)] : K \in (SUBSET Words) \ {{}}}

----------------------------------------------------------------------------
(* Feature functions *)

word_overlap_phi_noset(t1, t2) ==
    Counter(Filter(leaves(t1), Range(leaves(t2))))

word_overlap_phi(t1, t2) ==
    LET overlap_set == Range(Filter(leaves(t1), Range(leaves(t2))))
    IN Counter(SetToSeq(overlap_set))

word_cross_product_phi_set(t1, t2) ==
    Counter(SetToSeq(Range(product(leaves(t1), leaves(t2)))))

word_cross_product_phi(t1, t2) ==
    Counter(product(leaves(t1), leaves(t2)))

_get_tree_vecs_ones(tree, lookup, np_func) ==
    LET allvecs == [i \in 1..Len(leaves(tree)) |->
                        IF leaves(tree)[i] \in DOMAIN lookup
                        THEN lookup[leaves(tree)[i]]
                        ELSE [k \in 1..Dim |-> 1]]
    IN IF Len(allvecs) = 0
       THEN np_zeros(Len(lookup[CHOOSE w \in DOMAIN lookup : TRUE]))
       ELSE np_apply(np_func, allvecs)

\* np_func over the vectors of the distinct in-lookup leaves
_get_tree_vecs_distinct(tree, lookup, np_func) ==
    LET inlookup == SetToSeq(Range(leaves(tree)) \cap DOMAIN lookup)
        allvecs == [i \in 1..Len(inlookup) |-> lookup[inlookup[i]]]
    IN IF Len(allvecs) = 0
       THEN np_zeros(Len(lookup[CHOOSE w \in DOMAIN lookup : TRUE]))
       ELSE np_apply(np_func, allvecs)

_get_tree_vecs(tree, lookup, np_func) ==
    LET inlookup == Filter(leaves(tree), DOMAIN lookup)
        allvecs == [i \in 1..Len(inlookup) |-> lookup[inlookup[i]]]
    IN IF Len(allvecs) = 0
       THEN LET dim == Len(lookup[CHOOSE w \in DOMAIN lookup : TRUE])
            IN np_zeros(dim)
       ELSE np_apply(np_func, allvecs)

\* the arrays one call of _get_tree_vecs applies np_func to: none in the
\* branch that returns zeros, allvecs in the other
_get_tree_vecs_np_func_args(tree, lookup) ==
    LET inlookup == Filter(leaves(tree), DOMAIN lookup)
        allvecs == [i \in 1..Len(inlookup) |-> lookup[inlookup[i]]]
    IN IF Len(allvecs) = 0 THEN <<>> ELSE <<allvecs>>

glove_leaves_phi_swapped(t1, t2, np_func) ==
    np_concatenate(_get_tree_vecs(t2, glove_lookup, np_func),
                   _get_tree_vecs(t1, glove_lookup, np_func))

glove_leaves_phi(t1, t2, np_func) ==
    LET prem_vecs == _get_tree_vecs(t1, glove_lookup, np_func)
        hyp_vecs == _get_tree_vecs(t2, glove_lookup, np_func)
    IN np_concatenate(prem_vecs, hyp_vecs)

\* the arrays one call of glove_leaves_phi applies np_func to, in order
glove_leaves_phi_np_func_args(t1, t2) ==
    _get_tree_vecs_np_func_args(t1, glove_lookup)
        \o _get_tree_vecs_np_func_args(t2, glove_lookup)

sentence_rep_rnn_phi(t1, t2) ==
    PyList(<<PyList(leaves(t1)), PyList(leaves(t2))>>)

simple_chained_rep_rnn_phi_boundary(t1, t2) ==
    PyList(leaves(t1) \o <<UNK>> \o leaves(t2))

simple_chained_rep_rnn_phi(t1, t2) ==
    PyList(leaves(t1) \o leaves(t2))

----------------------------------------------------------------------------
(* Training wrappers over LogisticRegression *)

\* the hyperparameters printed by the cross-validated experiment on
\* word_cross_product_phi: Best params {'C': 0.4, 'penalty': 'l1'}
BestParamsCrossProduct == [C |-> Rat(4, 10), penalty |-> "l1"]

LogisticRegression(fit_intercept, penalty, solver, C) ==
    [fit_intercept |-> fit_intercept, penalty |-> penalty,
     solver |-> solver, C |-> C, outcome |-> "unfitted", regularizer |-> ""]

\* LogisticRegression.fit: a penalty that is neither 'l1' nor 'l2' is rejected
\* with a ValueError by the releases that validate it; the releases that do not
\* validate it for the saga solver regularize with L2 unless penalty == 'l1'
LogisticRegression_fit(m) ==
    LET fitted == [m EXCEPT !.outcome = "fitted",
                            !.regularizer = IF m.penalty = "l1" THEN "l1" ELSE "l2"]
        raised == [m EXCEPT !.outcome = "ValueError"]
    IN IF m.penalty \in {"l1", "l2"} THEN {fitted} ELSE {fitted, raised}

\* the estimator built by fit_maxent_classifier_with_preselected_params
preselected_params_mod ==
    LogisticRegression(TRUE, "ll", "saga", Rat(4, 10))

NoMod == LogisticRegression(FALSE, "", "", Rat(0, 1))

----------------------------------------------------------------------------
(* One call of a feature function on one example *)

NoFeed == [premises |-> <<>>, hypotheses |-> <<>>, prem_lengths |-> <<>>,
           hyp_lengths |-> <<>>, outputs |-> <<>>]

ExpIdle ==
    /\ examples = <<>> /\ y = <<>> /\ X = <<>> /\ phi_used = "none"
    /\ pc = "idle" /\ vocab = <<>> /\ n_words_arg = 0
    /\ X_assess = <<>>
    /\ feed = NoFeed /\ prem_last = <<>> /\ hyp_last = <<>>
    /\ last = <<>> /\ model = <<>>

NbIdle == np_calls = <<>> /\ again = FALSE /\ runs = <<>>

PhiIdle ==
    /\ called = "none" /\ overlap = <<>> /\ cross = <<>>
    /\ glove_feats = <<>> /\ sent_rep = PyList(<<>>) /\ chained = PyList(<<>>)
    /\ mod = NoMod

InitPhi ==
    /\ prem_tree \in Trees
    /\ hyp_tree \in Trees
    /\ np_func_arg \in NpFuncs
    /\ glove_lookup \in Lookups
    /\ PhiIdle
    /\ ExpIdle
    /\ NbIdle

call_word_overlap_phi ==
    /\ called = "none"
    /\ called' = "word_overlap_phi"
    /\ overlap' = word_overlap_phi(prem_tree, hyp_tree)
    /\ UNCHANGED <<prem_tree, hyp_tree, np_func_arg, glove_lookup, cross,
                   glove_feats, sent_rep, chained, mod>>
    /\ UNCHANGED <<exp_vars, nb_vars>>

call_word_cross_product_phi ==
    /\ called = "none"
    /\ called' = "word_cross_product_phi"
    /\ cross' = word_cross_product_phi(prem_tree, hyp_tree)
    /\ UNCHANGED <<prem_tree, hyp_tree, np_func_arg, glove_lookup, overlap,
                   glove_feats, sent_rep, chained, mod>>
    /\ UNCHANGED <<exp_vars, nb_vars>>

call_glove_leaves_phi ==
    /\ called = "none"
    /\ called' = "glove_leaves_phi"
    /\ glove_feats' = glove_leaves_phi(prem_tree, hyp_tree, np_func_arg)
    /\ np_calls' = glove_leaves_phi_np_func_args(prem_tree, hyp_tree)
    /\ UNCHANGED <<prem_tree, hyp_tree, np_func_arg, glove_lookup, overlap,
                   cross, sent_rep, chained, mod>>
    /\ UNCHANGED <<exp_vars, again, runs>>

call_sentence_rep_rnn_phi ==
    /\ called = "none"
    /\ called' = "sentence_rep_rnn_phi"
    /\ sent_rep' = sentence_rep_rnn_phi(prem_tree, hyp_tree)
    /\ UNCHANGED <<prem_tree, hyp_tree, np_func_arg, glove_lookup, overlap,
                   cross, glove_feats, chained, mod>>
    /\ UNCHANGED <<exp_vars, nb_vars>>

\* a chained feature function that extends the premise's own list of leaves
call_simple_chained_rep_rnn_phi_extend ==
    /\ called = "none"
    /\ called' = "simple_chained_rep_rnn_phi"
    /\ prem_tree' = prem_tree \o hyp_tree
    /\ chained' = PyList(prem_tree')
    /\ UNCHANGED <<hyp_tree, np_func_arg, glove_lookup, overlap,
                   cross, glove_feats, sent_rep, mod>>
    /\ UNCHANGED <<exp_vars, nb_vars>>

call_simple_chained_rep_rnn_phi ==
    /\ called = "none"
    /\ called' = "simple_chained_rep_rnn_phi"
    /\ chained' = simple_chained_rep_rnn_phi(prem_tree, hyp_tree)
    /\ UNCHANGED <<prem_tree, hyp_tree, np_func_arg, glove_lookup, overlap,
                   cross, glove_feats, sent_rep, mod>>
    /\ UNCHANGED <<exp_vars, nb_vars>>

\* the full train/dev experiment: the cross-product features of the example
\* are handed to the train_func, which builds the estimator, fits it and
\* returns it
fit_maxent_classifier_with_preselected_params ==
    /\ called = "word_cross_product_phi"
    /\ called' = "fit_maxent_classifier_with_preselected_params"
    /\ mod' \in LogisticRegression_fit(preselected_params_mod)
    /\ UNCHANGED <<prem_tree, hyp_tree, np_func_arg, glove_lookup, overlap,
                   cross, glove_feats, sent_rep, chained>>
    /\ UNCHANGED <<exp_vars, nb_vars>>

NextPhi ==
    \/ call_word_overlap_phi
    \/ call_word_cross_product_phi
    \/ call_glove_leaves_phi
    \/ call_sentence_rep_rnn_phi
    \/ call_simple_chained_rep_rnn_phi
    \/ fit_maxent_classifier_with_preselected_params

SpecPhi == InitPhi /\ [][NextPhi]_vars

----------------------------------------------------------------------------
(* Properties of the feature functions and of the preselected estimator *)

Count(w, l) == Cardinality({i \in DOMAIN l : l[i] = w})

RECURSIVE SumOver(_, _)
SumOver(f, S) ==
    IF S = {} THEN 0
    ELSE LET e == CHOOSE e \in S : TRUE IN f[e] + SumOver(f, S \ {e})

\* C1: word_overlap_phi returns a map whose keys are exactly the words that
\* occur among the leaves of both trees, each mapped to 1 however often it
\* is repeated; the map is empty when the trees share no word.
C1_OverlapKeysMapToOne ==
    called = "word_overlap_phi" =>
        /\ DOMAIN overlap = Range(leaves(prem_tree)) \cap Range(leaves(hyp_tree))
        /\ \A w \in DOMAIN overlap : overlap[w] = 1

C1_Witness ==
    /\ called = "word_overlap_phi"
    /\ \E w \in Words : Count(w, leaves(prem_tree)) >= 2
                        /\ w \in Range(leaves(hyp_tree))

\* C2: word_cross_product_phi counts every pair (w1, w2) as the number of
\* occurrences of w1 in the premise times that of w2 in the hypothesis, has
\* no key with a zero product, and its counts sum to the product of the two
\* numbers of leaves.
C2_CrossProductCounts ==
    called = "word_cross_product_phi" =>
        /\ DOMAIN cross \subseteq Words \X Words
        /\ \A w1 \in Words, w2 \in Words :
              LET n == Count(w1, leaves(prem_tree)) * Count(w2, leaves(hyp_tree))
              IN IF n = 0 THEN <<w1, w2>> \notin DOMAIN cross
                 ELSE <<w1, w2>> \in DOMAIN cross /\ cross[<<w1, w2>>] = n
        /\ SumOver(cross, DOMAIN cross)
              = Len(leaves(prem_tree)) * Len(leaves(hyp_tree))

C2_Witness ==
    /\ called = "word_cross_product_phi"
    /\ \E p \in DOMAIN cross : cross[p] >= 2
    /\ Cardinality(DOMAIN cross) >= 2

\* the length of the vectors of the lookup
LookupDim == Len(glove_lookup[CHOOSE w \in DOMAIN glove_lookup : TRUE])

PremPart == SubSeq(glove_feats, 1, LookupDim)

HypPart == SubSeq(glove_feats, LookupDim + 1, Len(glove_feats))

\* C3: glove_leaves_phi returns a vector of length 2*dim for every pair of
\* trees, empty trees and trees without a leaf in the lookup included; its
\* first dim components are the premise's combined vector and its last dim
\* components the hypothesis's.
C3_GloveFixedLength ==
    called = "glove_leaves_phi" =>
        /\ Len(glove_feats) = 2 * LookupDim
        /\ PremPart = _get_tree_vecs(prem_tree, glove_lookup, np_func_arg)
        /\ HypPart = _get_tree_vecs(hyp_tree, glove_lookup, np_func_arg)
        /\ Len(PremPart) = LookupDim /\ Len(HypPart) = LookupDim

C3_Witness ==
    /\ called = "glove_leaves_phi"
    /\ Range(leaves(prem_tree)) \cap DOMAIN glove_lookup = {}
    /\ Len(leaves(hyp_tree)) = MaxLeaves
    /\ Range(leaves(hyp_tree)) \subseteq DOMAIN glove_lookup
    /\ PremPart # HypPart

\* every leaf's vector, a leaf absent from the lookup standing as the zero
\* vector
ZeroDefaultVecs(tree, lookup) ==
    [i \in 1..Len(leaves(tree)) |->
        IF leaves(tree)[i] \in DOMAIN lookup
        THEN lookup[leaves(tree)[i]]
        ELSE [k \in 1..LookupDim |-> 0]]

SomeInLookup(tree) == Range(leaves(tree)) \cap DOMAIN glove_lookup # {}

SomeMissing(tree) == Range(leaves(tree)) \ DOMAIN glove_lookup # {}

\* C4, as claimed: for sum, mean and prod, _get_tree_vecs equals np_func over
\* the vectors of all the leaves, a leaf absent from the lookup standing as
\* the zero vector.  (Stated for trees with a leaf: numpy reduces an empty
\* list to a scalar, not to a vector.)
C4_ZeroDefaultAllFuncs ==
    called = "glove_leaves_phi" =>
        /\ Len(leaves(prem_tree)) > 0 =>
              PremPart = np_apply(np_func_arg, ZeroDefaultVecs(prem_tree, glove_lookup))
        /\ Len(leaves(hyp_tree)) > 0 =>
              HypPart = np_apply(np_func_arg, ZeroDefaultVecs(hyp_tree, glove_lookup))

ZeroDefaultCase(tree) ==
    /\ Len(leaves(tree)) > 0
    /\ \/ np_func_arg = "sum"
       \/ ~SomeMissing(tree)
       \/ ~SomeInLookup(tree)

\* C4, amended: the equality holds for np.sum, and for every np_func when
\* all or none of the leaves of a tree are in the lookup.
C4_ZeroDefaultForSum ==
    called = "glove_leaves_phi" =>
        /\ ZeroDefaultCase(prem_tree) =>
              PremPart = np_apply(np_func_arg, ZeroDefaultVecs(prem_tree, glove_lookup))
        /\ ZeroDefaultCase(hyp_tree) =>
              HypPart = np_apply(np_func_arg, ZeroDefaultVecs(hyp_tree, glove_lookup))

C4_Witness ==
    /\ called = "glove_leaves_phi"
    /\ np_func_arg = "sum"
    /\ SomeInLookup(prem_tree) /\ SomeMissing(prem_tree)
    /\ PremPart # np_zeros(LookupDim)

\* C6: simple_chained_rep_rnn_phi returns one sequence of length
\* len(t1.leaves()) + len(t2.leaves()): the premise's leaves in their order,
\* then the hypothesis's leaves in their order, nothing in between.
C6_ChainedIsConcatenation ==
    called = "simple_chained_rep_rnn_phi" =>
        LET n1 == Len(leaves(prem_tree))
            n2 == Len(leaves(hyp_tree))
        IN /\ chained.t = "list"
           /\ Len(chained.v) = n1 + n2
           /\ \A i \in 1..n1 : chained.v[i] = leaves(prem_tree)[i]
           /\ \A i \in 1..n2 : chained.v[n1 + i] = leaves(hyp_tree)[i]

C6_Witness ==
    /\ called = "simple_chained_rep_rnn_phi"
    /\ Len(leaves(prem_tree)) = MaxLeaves
    /\ Len(leaves(hyp_tree)) > 0
    /\ Range(leaves(prem_tree)) \cap Range(leaves(hyp_tree)) = {}

\* C10: fit_maxent_classifier_with_preselected_params trains with the
\* hyperparameters cross-validation chose for word_cross_product_phi,
\* C = 0.4 and penalty = 'l1', with fit_intercept=True and a solver that
\* supports L1, and returns the fitted model.
C10_PreselectedParamsAreBestParams ==
    called = "fit_maxent_classifier_with_preselected_params" =>
        /\ mod.C = BestParamsCrossProduct.C
        /\ mod.penalty = BestParamsCrossProduct.penalty
        /\ mod.fit_intercept = TRUE
        /\ mod.solver \in {"saga", "liblinear"}
        /\ mod.outcome = "fitted"
        /\ mod.regularizer = "l1"

C10_Witness ==
    /\ called = "fit_maxent_classifier_with_preselected_params"
    /\ mod.C = BestParamsCrossProduct.C
    /\ mod.penalty # BestParamsCrossProduct.penalty

----------------------------------------------------------------------------
(* The vocabulary *)

\* the default n_words=None of get_vocab
None == -1

\* n_words=2000 in fit_sentence_rep_rnn and fit_simple_chained_rnn
NWords == 2000

\* Python's order on str: lexicographic on the character codes
RECURSIVE CodesLess(_, _)
CodesLess(a, b) ==
    IF a = <<>> THEN b # <<>>
    ELSE IF b = <<>> THEN FALSE
    ELSE IF a[1] # b[1] THEN a[1] < b[1]
    ELSE CodesLess(Tail(a), Tail(b))

StrLess(a, b) == CodesLess(a.v, b.v)

\* sorted() of a set of str
RECURSIVE sorted(_)
sorted(S) ==
    IF S = {} THEN <<>>
    ELSE LET m == CHOOSE m \in S : \A o \in S \ {m} : StrLess(m, o)
         IN <<m>> \o sorted(S \ {m})

\* what a for loop over a value yields: the elements of a list, the
\* one-character strings of a str
Iter(value) ==
    IF value.t = "list" THEN value.v
    ELSE [i \in 1..Len(value.v) |-> PyStr(<<value.v[i]>>)]

RECURSIVE Chain(_)
Chain(ss) == IF ss = <<>> THEN <<>> ELSE Head(ss) \o Chain(Tail(ss))

\* [w for pair in X for ex in pair for w in ex]
comprehension(Xarg) ==
    Chain([p \in 1..Len(Xarg) |->
        Chain([e \in 1..Len(Iter(Xarg[p])) |-> Iter(Iter(Xarg[p])[e])])])

FirstIndex(w, l) == CHOOSE i \in DOMAIN l : l[i] = w /\ \A j \in 1..(i - 1) : l[j] # w

\* the items of Counter(l), in insertion order: each distinct element with
\* its count, ordered by first occurrence
items(l) ==
    LET keys == Range(l)
        pos(w) == Cardinality({o \in keys : FirstIndex(o, l) < FirstIndex(w, l)}) + 1
    IN [r \in 1..Cardinality(keys) |->
          LET w == CHOOSE w \in keys : pos(w) = r IN <<w, Count(w, l)>>]

most_common_first_seen(l, n) ==
    LET its == items(l)
        m == IF n < Len(its) THEN n ELSE Len(its)
    IN [r \in 1..m |-> its[r]]

\* Counter(l).most_common(n): the n items of highest count, ties in
\* insertion order (heapq.nlargest is stable over the items)
most_common(l, n) ==
    LET its == items(l)
        before(i, j) == \/ its[i][2] > its[j][2]
                        \/ its[i][2] = its[j][2] /\ i < j
        rank(j) == Cardinality({i \in DOMAIN its : before(i, j)}) + 1
        m == IF n < Len(its) THEN n ELSE Len(its)
    IN [r \in 1..m |-> its[CHOOSE j \in DOMAIN its : rank(j) = r]]

get_vocab(Xarg, n_words) ==
    LET wc == comprehension(Xarg)
        wc2 == IF n_words # None /\ n_words # 0
               THEN most_common(wc, n_words) ELSE items(wc)
        vocab0 == {wc2[i][1] : i \in DOMAIN wc2}
        vocab1 == vocab0 \cup {UNK}
    IN sorted(vocab1)

----------------------------------------------------------------------------
(* TfNLISentenceRepRNN *)

\* the largest number of examples the reader yields
MaxExamples == 2
\* the largest number of leaves of a sampled dataset, all trees together
MaxTokens == 3
\* the largest n_words get_vocab is called with
MaxNWords == 2
\* self.max_length of the classifier
MaxLength == 2
\* self.hidden_dim of the classifier
HiddenDim == 2
\* the arithmetic of the modelled cells is modulo this number
Modulus == 5

Labels == {"contradiction", "entailment", "neutral"}

\* a sample of the label lists of a dataset of m examples
LabelLists(m) ==
    {[i \in 1..m |-> "contradiction"],
     [i \in 1..m |-> IF i % 2 = 1 THEN "entailment" ELSE "neutral"]}

Min(a, b) == IF a < b THEN a ELSE b

\* zip(*X): the k-th tuple holds the k-th element of every example
zip(Xarg) ==
    IF Xarg = <<>> THEN <<>>
    ELSE LET n == CHOOSE n \in {Len(Iter(Xarg[i])) : i \in DOMAIN Xarg} :
                      \A i \in DOMAIN Xarg : n <= Len(Iter(Xarg[i]))
         IN [k \in 1..n |-> [i \in 1..Len(Xarg) |-> Iter(Xarg[i])[k]]]

\* index.get(w, unk_index) over index = dict(zip(vocab, range(len(vocab))))
vocab_index(vocabulary, w) ==
    IF w \in Range(vocabulary)
    THEN (CHOOSE i \in DOMAIN vocabulary : vocabulary[i] = w) - 1
    ELSE (CHOOSE i \in DOMAIN vocabulary : vocabulary[i] = UNK) - 1

\* one row of _convert_X: the last max_length words as vocabulary indices,
\* padded with zeros to max_length
convert_row(vocabulary, ex) ==
    LET ws == Iter(ex)
        drop == IF Len(ws) > MaxLength THEN Len(ws) - MaxLength ELSE 0
        vals == [j \in 1..(Len(ws) - drop) |-> vocab_index(vocabulary, ws[drop + j])]
    IN [j \in 1..MaxLength |-> IF j <= Len(vals) THEN vals[j] ELSE 0]

\* TfRNNClassifier._convert_X: the index matrix and the list of lengths
_convert_X(vocabulary, Xside) ==
    <<[i \in 1..Len(Xside) |-> convert_row(vocabulary, Xside[i])],
      [i \in 1..Len(Xside) |-> Len(Iter(Xside[i]))]>>

train_dict_swapped(vocabulary, Xarg, yarg) ==
    LET z == zip(Xarg)
        X_prem == _convert_X(vocabulary, z[2])
        X_hyp == _convert_X(vocabulary, z[1])
    IN [premises |-> X_prem[1], hypotheses |-> X_hyp[1],
        prem_lengths |-> X_prem[2], hyp_lengths |-> X_hyp[2],
        outputs |-> yarg]

train_dict(vocabulary, Xarg, yarg) ==
    LET z == zip(Xarg)
        X_prem == _convert_X(vocabulary, z[1])
        X_hyp == _convert_X(vocabulary, z[2])
    IN [premises |-> X_prem[1], hypotheses |-> X_hyp[1],
        prem_lengths |-> X_prem[2], hyp_lengths |-> X_hyp[2],
        outputs |-> yarg]

test_dict(vocabulary, Xarg) ==
    LET z == zip(Xarg)
        X_prem == _convert_X(vocabulary, z[1])
        X_hyp == _convert_X(vocabulary, z[2])
    IN [premises |-> X_prem[1], hypotheses |-> X_hyp[1],
        prem_lengths |-> X_prem[2], hyp_lengths |-> X_hyp[2],
        outputs |-> <<>>]

\* self.embedding, shared by the two graphs: one number per vocabulary index
embedding(idx) == (2 * idx + 1) % Modulus

\* tf.nn.embedding_lookup over a matrix of indices
embedding_lookup(ids) ==
    [i \in 1..Len(ids) |-> [j \in 1..Len(ids[i]) |-> embedding(ids[i][j])]]

\* the weights of the cell created under a variable scope
CellWeights(scope) ==
    IF scope = "premise" THEN [a |-> 2, b |-> 1] ELSE [a |-> 3, b |-> 2]

ZeroState == [c |-> [k \in 1..HiddenDim |-> 0], h |-> [k \in 1..HiddenDim |-> 0]]

\* one step of a cell: the state is the pair (c, h) of an LSTM cell
cell_step(scope, state, x) ==
    LET w == CellWeights(scope)
        c2 == [k \in 1..HiddenDim |-> (w.a * state.c[k] + k * x + w.b) % Modulus]
    IN [c |-> c2, h |-> [k \in 1..HiddenDim |-> (c2[k] + state.h[k]) % Modulus]]

\* tf.nn.dynamic_rnn on one row: the state after the first sequence_length
\* steps (after all the steps when sequence_length exceeds the row)
RECURSIVE rnn_steps(_, _, _, _, _)
rnn_steps(scope, row, length, step, state) ==
    IF step > Min(length, Len(row)) THEN state
    ELSE rnn_steps(scope, row, length, step + 1, cell_step(scope, state, row[step]))

dynamic_rnn(scope, feats, lengths) ==
    [i \in 1..Len(feats) |-> rnn_steps(scope, feats[i], lengths[i], 1, ZeroState)]

\* _get_final_state: the h of the final (c, h) of every row
_get_final_state(states) == [i \in 1..Len(states) |-> states[i].h]

build_premise_graph_reads_hypotheses(fd) ==
    _get_final_state(dynamic_rnn("premise", embedding_lookup(fd.hypotheses),
                                 fd.hyp_lengths))

build_premise_graph(fd) ==
    LET prem_feats == embedding_lookup(fd.premises)
        prem_state == dynamic_rnn("premise", prem_feats, fd.prem_lengths)
    IN _get_final_state(prem_state)

build_hypothesis_graph(fd) ==
    LET hyp_feats == embedding_lookup(fd.hypotheses)
        hyp_state == dynamic_rnn("hypothesis", hyp_feats, fd.hyp_lengths)
    IN _get_final_state(hyp_state)

\* tf.concat((a, b), axis=1)
tf_concat_axis1(a, b) == [i \in 1..Len(a) |-> a[i] \o b[i]]

\* self.W_ly and self.b_y
W_ly(j, c) == (j + c) % Modulus

b_y(c) == c % Modulus

\* tf.matmul(self.last, self.W_ly) + self.b_y
output_layer(lastarg) ==
    [i \in 1..Len(lastarg) |->
        [c \in 1..Cardinality(Labels) |->
            (SumInts([j \in 1..Len(lastarg[i]) |-> lastarg[i][j] * W_ly(j, c)])
             + b_y(c)) % Modulus]]

\* build_graph, evaluated on a feed dictionary: the tensors self.prem_last,
\* self.hyp_last, self.last and self.model
build_graph(fd) ==
    /\ prem_last' = build_premise_graph(fd)
    /\ hyp_last' = build_hypothesis_graph(fd)
    /\ last' = tf_concat_axis1(prem_last', hyp_last')
    /\ model' = output_layer(last')

----------------------------------------------------------------------------
(* An experiment on a sampled dataset *)

Tokens(exs) ==
    SumInts([i \in 1..Len(exs) |-> Len(leaves(exs[i][1])) + Len(leaves(exs[i][2]))])

InitExp ==
    /\ prem_tree = <<>> /\ hyp_tree = <<>> /\ np_func_arg = "sum"
    /\ glove_lookup = [w \in Words |-> GloveVec(w)]
    /\ PhiIdle
    /\ examples = <<>> /\ y = <<>> /\ X = <<>> /\ phi_used = "none"
    /\ pc = "reading" /\ vocab = <<>> /\ n_words_arg = 0
    /\ X_assess = <<>>
    /\ feed = NoFeed /\ prem_last = <<>> /\ hyp_last = <<>>
    /\ last = <<>> /\ model = <<>>
    /\ NbIdle

\* the train reader yields one more pair of trees
read_example ==
    /\ pc = "reading"
    /\ Len(examples) < MaxExamples
    /\ \E t1 \in BoundedSeq(Words, MaxTokens - Tokens(examples)) :
         \E t2 \in BoundedSeq(Words, MaxTokens - Tokens(examples) - Len(t1)) :
            examples' = Append(examples, <<t1, t2>>)
    /\ UNCHANGED <<y, X, phi_used, pc, vocab, n_words_arg, X_assess, feed,
                   prem_last, hyp_last, last, model>>
    /\ UNCHANGED <<phi_vars, nb_vars>>

\* nli.experiment(phi=sentence_rep_rnn_phi, vectorize=False): X holds phi
\* of every example
build_dataset_sentence_rep ==
    /\ pc = "reading"
    /\ X' = [i \in 1..Len(examples) |->
                sentence_rep_rnn_phi(examples[i][1], examples[i][2])]
    /\ phi_used' = "sentence_rep_rnn_phi"
    /\ pc' = "built"
    /\ UNCHANGED <<examples, y, vocab, n_words_arg, X_assess, feed,
                   prem_last, hyp_last, last, model>>
    /\ UNCHANGED <<phi_vars, nb_vars>>

\* nli.experiment(phi=simple_chained_rep_rnn_phi, vectorize=False)
build_dataset_chained ==
    /\ pc = "reading"
    /\ X' = [i \in 1..Len(examples) |->
                simple_chained_rep_rnn_phi(examples[i][1], examples[i][2])]
    /\ phi_used' = "simple_chained_rep_rnn_phi"
    /\ pc' = "built"
    /\ UNCHANGED <<examples, y, vocab, n_words_arg, X_assess, feed,
                   prem_last, hyp_last, last, model>>
    /\ UNCHANGED <<phi_vars, nb_vars>>

\* get_vocab(X, n_words) called on the dataset
call_get_vocab ==
    /\ pc = "built"
    /\ \E n \in {None} \cup 0..MaxNWords :
          /\ vocab' = get_vocab(X, n)
          /\ n_words_arg' = n
    /\ pc' = "vocab"
    /\ UNCHANGED <<examples, y, X, phi_used, X_assess, feed,
                   prem_last, hyp_last, last, model>>
    /\ UNCHANGED <<phi_vars, nb_vars>>

\* fit_simple_chained_rnn(X, y): the vocabulary handed to TfRNNClassifier
\* (the classifier's own training is not part of the notebook)
fit_simple_chained_rnn ==
    /\ pc = "built"
    /\ phi_used = "simple_chained_rep_rnn_phi"
    /\ y' \in LabelLists(Len(X))
    /\ vocab' = get_vocab(X, NWords)
    /\ n_words_arg' = NWords
    /\ pc' = "fitted_chained"
    /\ UNCHANGED <<examples, X, phi_used, X_assess, feed,
                   prem_last, hyp_last, last, model>>
    /\ UNCHANGED <<phi_vars, nb_vars>>

\* fit_sentence_rep_rnn(X, y): the vocabulary, then mod.fit(X, y), which
\* feeds train_dict(X, y) to the graph.  The parameters are the fixed ones of
\* embedding, CellWeights, W_ly and b_y; unpacking zip(*X) of an empty X
\* raises a ValueError.
fit_sentence_rep_rnn ==
    /\ pc = "built"
    /\ phi_used = "sentence_rep_rnn_phi"
    /\ y' \in LabelLists(Len(X))
    /\ vocab' = get_vocab(X, NWords)
    /\ n_words_arg' = NWords
    /\ IF Len(zip(X)) # 2
       THEN /\ pc' = "ValueError"
            /\ UNCHANGED <<feed, prem_last, hyp_last, last, model>>
       ELSE /\ pc' = "fitted"
            /\ feed' = train_dict(vocab', X, y')
            /\ build_graph(feed')
    /\ UNCHANGED <<examples, X, phi_used, X_assess>>
    /\ UNCHANGED <<phi_vars, nb_vars>>

\* the fitted model predicts on the assessment part of the dataset:
\* test_dict(X_assess) is fed to the graph
predict_sentence_rep_rnn ==
    /\ pc = "fitted"
    /\ \E k \in 1..Len(X) :
          /\ X_assess' = SubSeq(X, k, Len(X))
          /\ feed' = test_dict(vocab, X_assess')
          /\ build_graph(feed')
    /\ pc' = "predicted"
    /\ UNCHANGED <<examples, y, X, phi_used, vocab, n_words_arg>>
    /\ UNCHANGED <<phi_vars, nb_vars>>

NextVocab ==
    \/ read_example
    \/ build_dataset_sentence_rep
    \/ build_dataset_chained
    \/ call_get_vocab
    \/ fit_simple_chained_rnn

SpecVocab == InitExp /\ [][NextVocab]_vars

NextRNN ==
    \/ read_example
    \/ build_dataset_sentence_rep
    \/ fit_sentence_rep_rnn
    \/ predict_sentence_rep_rnn

SpecRNN == InitExp /\ [][NextRNN]_vars

----------------------------------------------------------------------------
(* Properties of the vocabulary and of the sentence-encoding RNN *)

\* the leaf words of the sampled examples
WordsOfExamples ==
    UNION {Range(leaves(examples[i][1])) \cup Range(leaves(examples[i][2])) :
           i \in DOMAIN examples}

\* the number of occurrences of a word among the leaves of the examples
Occurrences(w) ==
    SumInts([i \in 1..Len(examples) |->
        Count(w, leaves(examples[i][1])) + Count(w, leaves(examples[i][2]))])

\* the rows of the last feed dictionary
Rows == DOMAIN feed.premises

\* C5: in TfNLISentenceRepRNN, rows that agree on the premise and its length
\* have the same prem_last whatever their hypotheses, rows that agree on the
\* hypothesis and its length have the same hyp_last whatever their premises,
\* and the two encodings meet only in the concatenation self.last.
C5_EncodedIndependently ==
    pc \in {"fitted", "predicted"} =>
        /\ \A i \in Rows, j \in Rows :
              (feed.premises[i] = feed.premises[j]
               /\ feed.prem_lengths[i] = feed.prem_lengths[j])
              => prem_last[i] = prem_last[j]
        /\ \A i \in Rows, j \in Rows :
              (feed.hypotheses[i] = feed.hypotheses[j]
               /\ feed.hyp_lengths[i] = feed.hyp_lengths[j])
              => hyp_last[i] = hyp_last[j]
        /\ \A i \in Rows : last[i] = prem_last[i] \o hyp_last[i]

C5_Witness ==
    /\ pc = "fitted"
    /\ \E i \in Rows, j \in Rows :
          /\ feed.premises[i] = feed.premises[j]
          /\ feed.prem_lengths[i] = feed.prem_lengths[j]
          /\ feed.prem_lengths[i] > 0
          /\ feed.hypotheses[i] # feed.hypotheses[j]
          /\ hyp_last[i] # hyp_last[j]
          /\ prem_last[i] = prem_last[j]
          /\ prem_last[i] # ZeroState.h

\* the list of examples handed to the last train_dict or test_dict
FedX == IF pc = "fitted" THEN X ELSE X_assess

\* C7: for a list X produced by sentence_rep_rnn_phi, row i of the premises
\* placeholder and prem_lengths[i] come from the premise word list of example
\* i alone, and row i of the hypotheses placeholder and hyp_lengths[i] from
\* the hypothesis word list of the same example.
C7_FeedRoutesPremiseAndHypothesis ==
    pc \in {"fitted", "predicted"} =>
        /\ Len(feed.premises) = Len(FedX)
        /\ Len(feed.hypotheses) = Len(FedX)
        /\ Len(feed.prem_lengths) = Len(FedX)
        /\ Len(feed.hyp_lengths) = Len(FedX)
        /\ \A i \in DOMAIN FedX :
              /\ feed.premises[i] = convert_row(vocab, FedX[i].v[1])
              /\ feed.prem_lengths[i] = Len(FedX[i].v[1].v)
              /\ feed.hypotheses[i] = convert_row(vocab, FedX[i].v[2])
              /\ feed.hyp_lengths[i] = Len(FedX[i].v[2].v)

C7_Witness ==
    /\ pc = "fitted"
    /\ Len(X) >= 2
    /\ X[1] # X[2]
    /\ \E i \in DOMAIN X : /\ feed.premises[i] # feed.hypotheses[i]
                           /\ feed.prem_lengths[i] # feed.hyp_lengths[i]

StrictlyAscending(l) ==
    \A i \in DOMAIN l, j \in DOMAIN l : i < j => StrLess(l[i], l[j])

\* C8: for a list X of (premise words, hypothesis words) pairs,
\* get_vocab(X, n_words) is strictly ascending, contains "$UNK", and its other
\* elements are words of X; with n_words = k > 0 it has at most k+1 elements
\* and no word left out occurs more often in X than a word kept; with
\* n_words = None it contains every word of X.
C8_GetVocab ==
    (pc = "vocab" /\ phi_used = "sentence_rep_rnn_phi") =>
        /\ StrictlyAscending(vocab)
        /\ UNK \in Range(vocab)
        /\ Range(vocab) \ {UNK} \subseteq WordsOfExamples
        /\ n_words_arg > 0 =>
              /\ Len(vocab) <= n_words_arg + 1
              /\ \A kept \in Range(vocab) \ {UNK} :
                    \A out \in WordsOfExamples \ Range(vocab) :
                        Occurrences(out) <= Occurrences(kept)
        /\ n_words_arg = None => WordsOfExamples \subseteq Range(vocab)

C8_Witness ==
    /\ pc = "vocab" /\ phi_used = "sentence_rep_rnn_phi"
    /\ n_words_arg = 1
    /\ Len(vocab) = 2
    /\ \E out \in WordsOfExamples \ Range(vocab) :
          \E kept \in Range(vocab) \ {UNK} :
             /\ Occurrences(out) < Occurrences(kept)
             /\ StrLess(kept, UNK)

\* C9: the vocabulary fit_simple_chained_rnn builds is one of word tokens:
\* every element of get_vocab(X, n_words=2000) other than "$UNK" is a leaf
\* word of some example, and every leaf word among the 2000 most frequent is
\* in the vocabulary.
C9_ChainedVocabOfWords ==
    pc = "fitted_chained" =>
        /\ Range(vocab) \ {UNK} \subseteq WordsOfExamples
        /\ Cardinality(WordsOfExamples) <= NWords =>
              WordsOfExamples \subseteq Range(vocab)

C9_Witness ==
    /\ pc = "fitted_chained"
    /\ \E w \in WordsOfExamples : Len(w.v) > 1 /\ w \notin Range(vocab)
    /\ \E c \in Range(vocab) \ {UNK} : c \notin WordsOfExamples

----------------------------------------------------------------------------
(* Repeated calls of the feature functions and of get_vocab *)

\* X = [phi(t1, t2)]: the features of the example, collected into a list
collect_features ==
    /\ pc = "idle" /\ ~again
    /\ called \in {"sentence_rep_rnn_phi", "simple_chained_rep_rnn_phi"}
    /\ examples' = <<<<prem_tree, hyp_tree>>>>
    /\ X' = IF called = "sentence_rep_rnn_phi"
            THEN <<sent_rep>> ELSE <<chained>>
    /\ phi_used' = called
    /\ pc' = "built"
    /\ UNCHANGED <<y, vocab, n_words_arg, X_assess, feed,
                   prem_last, hyp_last, last, model>>
    /\ UNCHANGED <<phi_vars, nb_vars>>

\* the function called last is called once more on the same arguments
call_again ==
    /\ again' = TRUE
    /\ \/ /\ called = "word_overlap_phi" /\ pc = "idle"
          /\ overlap' = word_overlap_phi(prem_tree, hyp_tree)
          /\ UNCHANGED <<cross, glove_feats, np_calls, sent_rep, chained,
                         vocab>>
       \/ /\ called = "word_cross_product_phi" /\ pc = "idle"
          /\ cross' = word_cross_product_phi(prem_tree, hyp_tree)
          /\ UNCHANGED <<overlap, glove_feats, np_calls, sent_rep, chained,
                         vocab>>
       \/ /\ called = "glove_leaves_phi" /\ pc = "idle"
          /\ glove_feats' = glove_leaves_phi(prem_tree, hyp_tree, np_func_arg)
          /\ np_calls' = glove_leaves_phi_np_func_args(prem_tree, hyp_tree)
          /\ UNCHANGED <<overlap, cross, sent_rep, chained, vocab>>
       \/ /\ called = "sentence_rep_rnn_phi" /\ pc = "idle"
          /\ sent_rep' = sentence_rep_rnn_phi(prem_tree, hyp_tree)
          /\ UNCHANGED <<overlap, cross, glove_feats, np_calls, chained,
                         vocab>>
       \/ /\ called = "simple_chained_rep_rnn_phi" /\ pc = "idle"
          /\ chained' = simple_chained_rep_rnn_phi(prem_tree, hyp_tree)
          /\ UNCHANGED <<overlap, cross, glove_feats, np_calls, sent_rep,
                         vocab>>
       \/ /\ pc = "vocab"
          /\ vocab' = get_vocab(X, n_words_arg)
          /\ UNCHANGED <<overlap, cross, glove_feats, np_calls, sent_rep,
                         chained>>
    /\ UNCHANGED <<prem_tree, hyp_tree, np_func_arg, glove_lookup, called,
                   mod, examples, y, X, phi_used, pc, n_words_arg, X_assess,
                   feed, prem_last, hyp_last, last, model, runs>>

NextCalls ==
    \/ call_word_overlap_phi
    \/ call_word_cross_product_phi
    \/ call_glove_leaves_phi
    \/ call_sentence_rep_rnn_phi
    \/ call_simple_chained_rep_rnn_phi
    \/ collect_features
    \/ call_get_vocab
    \/ call_again

\* the functions are called as the experiments call them: np_func is left at
\* its default, np.sum
InitCalls == InitPhi /\ np_func_arg = "sum"

SpecCalls == InitCalls /\ [][NextCalls]_vars

----------------------------------------------------------------------------
(* The notebook's experiment cells *)

\* the number of examples in each of the modelled SNLI files
CorpusSize == 2

TrainFile == {<<"train", k>> : k \in 1..CorpusSize}

DevFile == {<<"dev", k>> : k \in 1..CorpusSize}

\* a reader constructed without random_state has random_state = None
SNLITrainReader(samp_percentage, random_state) ==
    [src_filename |-> "train", samp_percentage |-> samp_percentage,
     random_state |-> random_state]

SNLIDevReader(samp_percentage, random_state) ==
    [src_filename |-> "dev", samp_percentage |-> samp_percentage,
     random_state |-> random_state]

\* assess_reader=None: no reader
NoReader ==
    [src_filename |-> "None", samp_percentage |-> Rat(0, 1),
     random_state |-> None]

\* the k-th draw, in tenths, of the generator seeded with seed
random(seed, k) == (seed * k + 7) % 10

\* a draw r (in tenths) keeps a line of a reader sampling samp_percentage
keeps(r, samp_percentage) ==
    r * samp_percentage[2] <= 10 * samp_percentage[1]

\* the sets of examples one pass over the reader can yield: with a seed the
\* draws are those of the seeded generator, without one they are arbitrary
read(reader) ==
    LET file == IF reader.src_filename = "train" THEN TrainFile ELSE DevFile
        p == reader.samp_percentage
    IN  IF reader.random_state # None
        THEN {{ex \in file : keeps(random(reader.random_state, ex[2]), p)}}
        ELSE {S \in SUBSET file :
                \A ex \in file :
                    \E r \in 0..9 : (ex \in S) <=> keeps(r, p)}

\* the number of assessment examples of a 70/30 split of n examples
n_test(n) == (3 * n + 9) \div 10

\* the assessment sets train_test_split can return for the split of S
train_test_split(S, random_state) ==
    IF random_state = None
    THEN {A \in SUBSET S : Cardinality(A) = n_test(Cardinality(S))}
    ELSE {CHOOSE A \in SUBSET S :
            /\ Cardinality(A) = n_test(Cardinality(S))
            /\ \A a \in A : \A b \in S \ A :
                  \/ random(random_state, a[2]) > random(random_state, b[2])
                  \/ /\ random(random_state, a[2]) = random(random_state, b[2])
                     /\ a[2] > b[2]}

\* what each feature function returns for one example
phi_returns(phi) ==
    CASE phi = "word_overlap_phi" -> "Counter"
      [] phi = "word_cross_product_phi" -> "Counter"
      [] phi = "glove_leaves_phi" -> "ndarray"
      [] phi = "sentence_rep_rnn_phi" -> "list"
      [] phi = "simple_chained_rep_rnn_phi" -> "list"

\* what build_dataset hands to the DictVectorizer and what it returns as X
build_dataset(phi, vectorize) ==
    [vectorizer_in |-> IF vectorize THEN phi_returns(phi) ELSE "nothing",
     X |-> IF vectorize THEN "matrix" ELSE phi_returns(phi)]

\* experiment's vectorize argument when the call does not pass it
vectorize_default == TRUE

train_reader == SNLITrainReader(Rat(1, 10), 42)

\* the GloVe experiment called without vectorize=False
ExperimentCalls_glove_vectorized ==
    << [cell |-> 16,
        train_reader |-> SNLITrainReader(Rat(1, 10), None),
        phi |-> "glove_leaves_phi",
        train_func |-> "fit_maxent_with_crossvalidation",
        assess_reader |-> NoReader, random_state |-> 42,
        vectorize |-> vectorize_default] >>

\* the nli.experiment calls of the notebook, by execution count
ExperimentCalls ==
    << [cell |-> 10,
        train_reader |-> SNLITrainReader(Rat(1, 10), None),
        phi |-> "word_overlap_phi",
        train_func |-> "fit_maxent_with_crossvalidation",
        assess_reader |-> NoReader, random_state |-> 42,
        vectorize |-> vectorize_default],
       [cell |-> 11,
        train_reader |-> SNLITrainReader(Rat(1, 10), None),
        phi |-> "word_cross_product_phi",
        train_func |-> "fit_maxent_with_crossvalidation",
        assess_reader |-> NoReader, random_state |-> 42,
        vectorize |-> vectorize_default],
       [cell |-> 13,
        train_reader |-> SNLITrainReader(Rat(1, 1), None),
        phi |-> "word_cross_product_phi",
        train_func |-> "fit_maxent_classifier_with_preselected_params",
        assess_reader |-> SNLIDevReader(Rat(1, 1), None),
        random_state |-> None,
        vectorize |-> vectorize_default],
       [cell |-> 16,
        train_reader |-> SNLITrainReader(Rat(1, 10), None),
        phi |-> "glove_leaves_phi",
        train_func |-> "fit_maxent_with_crossvalidation",
        assess_reader |-> NoReader, random_state |-> 42,
        vectorize |-> FALSE],
       [cell |-> 18,
        train_reader |-> SNLITrainReader(Rat(1, 10), None),
        phi |-> "glove_leaves_phi",
        train_func |-> "fit_shallow_neural_classifier_with_crossvalidation",
        assess_reader |-> NoReader, random_state |-> 42,
        vectorize |-> FALSE],
       [cell |-> 23,
        train_reader |-> SNLITrainReader(Rat(1, 10), None),
        phi |-> "sentence_rep_rnn_phi",
        train_func |-> "fit_sentence_rep_rnn",
        assess_reader |-> NoReader, random_state |-> 42,
        vectorize |-> FALSE],
       [cell |-> 26,
        train_reader |-> SNLITrainReader(Rat(1, 10), None),
        phi |-> "simple_chained_rep_rnn_phi",
        train_func |-> "fit_simple_chained_rnn",
        assess_reader |-> NoReader, random_state |-> 42,
        vectorize |-> FALSE] >>

(* Cross-validation *)

\* the number of folds
cv == 3

RatLeq(a, b) == a[1] * b[2] <= b[1] * a[2]

\* a grid with one more value of C
maxent_param_grid_wider ==
    [C |-> <<Rat(2, 10), Rat(4, 10), Rat(6, 10), Rat(8, 10), Rat(1, 1)>>,
     penalty |-> <<"l1", "l2">>]

maxent_param_grid ==
    [C |-> <<Rat(4, 10), Rat(6, 10), Rat(8, 10), Rat(1, 1)>>,
     penalty |-> <<"l1", "l2">>]

shallow_param_grid == [hidden_dim |-> <<25, 50, 100>>]

\* the combinations of a grid over C and penalty, the last key varying
\* fastest
ParameterGrid_C_penalty(param_grid) ==
    [i \in 1..(Len(param_grid.C) * Len(param_grid.penalty)) |->
        [C |-> param_grid.C[((i - 1) \div Len(param_grid.penalty)) + 1],
         penalty |->
            param_grid.penalty[((i - 1) % Len(param_grid.penalty)) + 1]]]

ParameterGrid_hidden_dim(param_grid) ==
    [i \in 1..Len(param_grid.hidden_dim) |->
        [hidden_dim |-> param_grid.hidden_dim[i]]]

\* the score, in tenths, of the i-th combination on one fold of the
\* training set: some function of the data, the combination and the fold
fold_score(train, X_kind, i, fold) ==
    LET h == Cardinality(train) + (IF <<"train", 1>> \in train THEN 2 ELSE 0)
        x == IF X_kind = "matrix" THEN 1 ELSE 2
    IN  (h * i + x * i * i + fold * (i + h) + x) % 11

\* the table of parameters and mean test scores of a grid search
cv_results_(train, X_kind, folds, grid) ==
    [i \in 1..Len(grid) |->
        [params |-> grid[i],
         mean_test_score |->
            Rat(SumInts([f \in 1..folds |->
                            fold_score(train, X_kind, i, f)]), folds)]]

\* the first combination whose mean test score no other exceeds
best_index_(results) ==
    CHOOSE i \in 1..Len(results) :
        /\ \A j \in 1..Len(results) :
              RatLeq(results[j].mean_test_score, results[i].mean_test_score)
        /\ \A j \in 1..(i - 1) :
              ~RatLeq(results[i].mean_test_score, results[j].mean_test_score)

\* the outcomes of the grid search: the best estimator's parameters, with
\* the table they were chosen from
fit_classifier_with_crossvalidation(train, X_kind, basemod, folds, grid) ==
    UNION {{[basemod |-> basemod,
             best_params_ |-> results[best].params,
             best_score_ |-> results[best].mean_test_score,
             cv_results_ |-> results] :
                best \in {best_index_(results)}} :
           results \in {cv_results_(train, X_kind, folds, grid)}}

fit_maxent_with_crossvalidation(train, X_kind) ==
    fit_classifier_with_crossvalidation(
        train, X_kind, "LogisticRegression", cv,
        ParameterGrid_C_penalty(maxent_param_grid))

fit_shallow_neural_classifier_with_crossvalidation(train, X_kind) ==
    fit_classifier_with_crossvalidation(
        train, X_kind, "TfShallowNeuralClassifier", cv,
        ParameterGrid_hidden_dim(shallow_param_grid))

\* the models a training function can return
train_func_returns(train_func, train, X_kind) ==
    CASE train_func = "fit_maxent_with_crossvalidation" ->
            fit_maxent_with_crossvalidation(train, X_kind)
      [] train_func = "fit_shallow_neural_classifier_with_crossvalidation" ->
            fit_shallow_neural_classifier_with_crossvalidation(train, X_kind)
      [] train_func = "fit_maxent_classifier_with_preselected_params" ->
            LogisticRegression_fit(preselected_params_mod)
      [] train_func = "fit_sentence_rep_rnn" ->
            {[basemod |-> "TfNLISentenceRepRNN"]}
      [] train_func = "fit_simple_chained_rnn" ->
            {[basemod |-> "TfRNNClassifier"]}

CrossValidated ==
    {"fit_maxent_with_crossvalidation",
     "fit_shallow_neural_classifier_with_crossvalidation"}

InitNotebook ==
    /\ prem_tree = <<>> /\ hyp_tree = <<>> /\ np_func_arg = "sum"
    /\ glove_lookup = [w \in Words |-> GloveVec(w)]
    /\ PhiIdle
    /\ ExpIdle
    /\ NbIdle

\* the notebook records its two most recent runs
record_run(run) ==
    runs' = IF runs = <<>> THEN <<run>> ELSE <<runs[Len(runs)], run>>

\* cell 8: dataset = nli.build_dataset(train_reader, word_overlap_phi)
cell_build_dataset ==
    /\ \E sample \in read(train_reader) :
          LET dataset == build_dataset("word_overlap_phi", vectorize_default)
          IN  record_run([cell |-> 8, phi |-> "word_overlap_phi",
                          train_func |-> "none", samp_percentage |->
                              train_reader.samp_percentage,
                          random_state |-> None,
                          vectorize |-> vectorize_default,
                          sample |-> sample, train |-> sample,
                          assess |-> {},
                          vectorizer_in |-> dataset.vectorizer_in,
                          model_in |-> "nothing",
                          trained |-> [basemod |-> "none"]])
    /\ UNCHANGED <<phi_vars, exp_vars, np_calls, again>>

\* one nli.experiment call: sample, featurize, split or read the assessment
\* set, train and assess
experiment(call) ==
    /\ \E sample \in read(call.train_reader) :
       \E assess \in IF call.assess_reader = NoReader
                     THEN train_test_split(sample, call.random_state)
                     ELSE read(call.assess_reader) :
          \E dataset \in {build_dataset(call.phi, call.vectorize)} :
          \E train \in {IF call.assess_reader = NoReader
                       THEN sample \ assess ELSE sample} :
              \E trained \in
                    train_func_returns(call.train_func, train, dataset.X) :
                 record_run([cell |-> call.cell, phi |-> call.phi,
                             train_func |-> call.train_func,
                             samp_percentage |->
                                 call.train_reader.samp_percentage,
                             random_state |-> call.random_state,
                             vectorize |-> call.vectorize,
                             sample |-> sample, train |-> train,
                             assess |-> assess,
                             vectorizer_in |-> dataset.vectorizer_in,
                             model_in |-> dataset.X,
                             trained |-> trained])
    /\ UNCHANGED <<phi_vars, exp_vars, np_calls, again>>

cell_experiment ==
    \E i \in DOMAIN ExperimentCalls : experiment(ExperimentCalls[i])

NextNotebook == cell_build_dataset \/ cell_experiment

SpecNotebook == InitNotebook /\ [][NextNotebook]_vars

----------------------------------------------------------------------------
(* Claims about the experiment cells *)

\* the runs whose experiment call samples 10% and passes random_state=42
SeededTenPercent(run) ==
    /\ run.train_func # "none"
    /\ run.samp_percentage = Rat(1, 10)
    /\ run.random_state = 42

\* C11: any two runs of 10% experiment cells that pass random_state=42 are
\* trained and assessed on the same sampled set of training examples.
C11_SeededRunsShareSample ==
    \A i, j \in DOMAIN runs :
        (SeededTenPercent(runs[i]) /\ SeededTenPercent(runs[j]))
            => /\ runs[i].sample = runs[j].sample
               /\ runs[i].train = runs[j].train
               /\ runs[i].assess = runs[j].assess

\* the word_overlap_phi and the word_cross_product_phi experiment have both
\* run, on different samples
C11_Witness ==
    /\ Len(runs) = 2
    /\ runs[1].cell = 10 /\ runs[2].cell = 11
    /\ runs[1].sample # runs[2].sample

\* the 8 combinations of C and penalty, and the 3 hidden dimensions
MaxentCombinations ==
    {[C |-> c, penalty |-> p] :
        c \in {Rat(4, 10), Rat(6, 10), Rat(8, 10), Rat(1, 1)},
        p \in {"l1", "l2"}}

HiddenDims == {25, 50, 100}

\* the combinations a grid search scored
Scored(trained) ==
    {trained.cv_results_[k].params : k \in DOMAIN trained.cv_results_}

\* the mean, over 3 folds, of the scores of the combination params
MeanOver3Folds(run, params) ==
    LET k == CHOOSE k \in DOMAIN run.trained.cv_results_ :
                run.trained.cv_results_[k].params = params
    IN  Rat(fold_score(run.train, run.model_in, k, 1)
            + fold_score(run.train, run.model_in, k, 2)
            + fold_score(run.train, run.model_in, k, 3), 3)

\* the returned parameters were scored, and no scored combination has a
\* higher mean over the 3 folds
BestOfGrid(run) ==
    /\ run.trained.best_params_ \in Scored(run.trained)
    /\ \A params \in Scored(run.trained) :
          RatLeq(MeanOver3Folds(run, params),
                 MeanOver3Folds(run, run.trained.best_params_))

----------------------------------------------------------------------------
(* Claims about calls of the feature functions *)

RECURSIVE InLookupVecsFrom(_, _)
InLookupVecsFrom(tree, i) ==
    IF i > Len(leaves(tree)) THEN <<>>
    ELSE (IF leaves(tree)[i] \in DOMAIN glove_lookup
          THEN <<glove_lookup[leaves(tree)[i]]>> ELSE <<>>)
         \o InLookupVecsFrom(tree, i + 1)

\* what _get_tree_vecs returns for tree and what it applies np_func to
TreeVecsAsClaimed(tree, part, applied) ==
    IF SomeInLookup(tree)
    THEN /\ part = np_apply(np_func_arg, InLookupVecsFrom(tree, 1))
         /\ applied = <<InLookupVecsFrom(tree, 1)>>
    ELSE /\ part = [k \in 1..LookupDim |-> Rat(0, 1)]
         /\ applied = <<>>

\* C14: when no leaf of the tree is in the (non-empty) lookup, a tree without
\* leaves included, _get_tree_vecs returns the zero vector of the length of
\* the lookup's vectors and does not apply np_func; when some leaf is in the
\* lookup it returns np_func applied, once, to exactly the vectors of the
\* in-lookup leaves, with repetitions and in leaf order.
C14_FallbackOnlyWithoutVectors ==
    called = "glove_leaves_phi"
        => \E n \in 0..1 :
              /\ TreeVecsAsClaimed(prem_tree, PremPart, SubSeq(np_calls, 1, n))
              /\ TreeVecsAsClaimed(hyp_tree, HypPart,
                                   SubSeq(np_calls, n + 1, Len(np_calls)))

\* the premise has no leaf in the lookup but a leaf outside it, the hypothesis
\* has the same in-lookup leaf twice and a combination that is not zero
C14_Witness ==
    /\ called = "glove_leaves_phi"
    /\ prem_tree # <<>> /\ ~SomeInLookup(prem_tree)
    /\ Len(hyp_tree) = 2 /\ hyp_tree[1] = hyp_tree[2]
    /\ SomeInLookup(hyp_tree)
    /\ HypPart # [k \in 1..LookupDim |-> Rat(0, 1)]
    /\ Len(np_calls) = 1

----------------------------------------------------------------------------
(* Claims about the vectorize setting of the experiment cells *)

\* the feature functions that return a sparse count map
CountMapPhis == {"word_overlap_phi", "word_cross_product_phi"}

\* the feature functions that return an already-built representation
BuiltPhis ==
    {"glove_leaves_phi", "sentence_rep_rnn_phi", "simple_chained_rep_rnn_phi"}

\* C15: every nli.experiment call whose phi returns a count map leaves
\* vectorization on, every call whose phi returns a dense vector or word
\* lists passes vectorize=False; so the vectorizer is handed nothing but count
\* maps, and no model is handed a count map.
C15_VectorizeMatchesPhi ==
    \A i \in DOMAIN runs :
        /\ runs[i].phi \in CountMapPhis \cup BuiltPhis
        /\ runs[i].phi \in CountMapPhis => runs[i].vectorize
        /\ runs[i].phi \in BuiltPhis => ~runs[i].vectorize
        /\ runs[i].vectorizer_in \in {"nothing", "Counter"}
        /\ runs[i].model_in # "Counter"

\* an experiment on count maps that were vectorized was followed by one on
\* dense vectors that were not
C15_Witness ==
    /\ Len(runs) = 2
    /\ runs[1].phi = "word_cross_product_phi"
    /\ runs[1].vectorizer_in = "Counter" /\ runs[1].model_in = "matrix"
    /\ runs[2].phi = "glove_leaves_phi"
    /\ runs[2].vectorizer_in = "nothing" /\ runs[2].model_in = "ndarray"

====
